---- MODULE Spec2Model ----
(***************************************************************************)
(* Model of the duplicate detector of processphotogallery: analyze() of    *)
(* src/processphotogallery.py and of src/individual/duplicate_detector.py  *)
(* (the two bodies are the same statement for statement), with the two     *)
(* entry points that call it.                                              *)
(*                                                                         *)
(* A path is a small integer.  A directory listing (what os.walk yields)   *)
(* is a sequence of distinct paths.  A file has a content (its bytes) and  *)
(* a status that says which of the two fingerprint calls fail on it.       *)
(* Optional values follow Python: None is the empty tuple, a value v is    *)
(* the one-element tuple <<v>>.                                            *)
(***************************************************************************)
EXTENDS Integers, Sequences, FiniteSets, TLC

\* ------------------------------------------------------------- bounds
\* Number of image files the scanned directory holds at most.
MaxFiles == 3

\* Number of distinct file contents (byte strings) the files draw from.
NumContents == 5

\* ------------------------------------------------- program constants
\* Width of a perceptual signature: imagehash.phash with hash_size 8.
SigBits == 64

\* The default similarity threshold of both files.
SIMILARITY_THRESHOLD == 5

\* The values SIMILARITY_THRESHOLD is edited to in the runs that explore
\* it: the limits of the documented range 0..64, the default, and one value
\* past the range.
Thresholds == {0, SIMILARITY_THRESHOLD, SigBits, SigBits + 1}

IMAGE_EXTENSIONS == {".jpg", ".jpeg", ".png", ".heic", ".bmp", ".tiff", ".webp", ".gif"}

None == <<>>

\* Python truthiness of an optional value as tested by `if file_hash:` and
\* `if phash:` (a hex digest is a non-empty string, an ImageHash has
\* length 64: both are true whenever they are not None).
Truthy(x) == x # None

\* ---------------------------------------------------------- the disk
\* Path 0 is a file that is no image (notes.txt); paths 1..MaxFiles are
\* image files.
NotesPath == 0

Ext(p) == IF p = NotesPath THEN ".txt" ELSE ".jpg"

ImagePaths(n) == 1..n

Contents == 1..NumContents

\* What the two fingerprint calls do on a file:
\*   ok          both succeed
\*   undecodable open() succeeds, Image.open()/phash raises
\*   unhashable  open()/read() raises, Image.open()/phash succeeds
\*   unreadable  both raise
FileStatus == {"ok", "undecodable", "unhashable", "unreadable"}

\* The perceptual signature of a content, as the set of its 1 bits.
\* Contents 1, 2, 3 form a chain (distances 3, 3, 6), content 4 is the
\* complement of content 1 (distance 64), content 5 has other bytes than
\* content 1 and the same signature.
phash(c) ==
  CASE c = 1 -> {}
    [] c = 2 -> 1..3
    [] c = 3 -> 1..6
    [] c = 4 -> 1..SigBits
    [] c = 5 -> {}
    [] OTHER -> 1..((7 * c) % (SigBits + 1))

\* hashlib.md5 over the whole content: equal bytes give equal digests and,
\* as the data model assumes, different bytes give different digests.
md5(c) == <<"md5", c>>

\* A distance that counts only the bits set in a and clear in b.
HammingOneSided(a, b) == Cardinality(a \ b)

\* ImageHash.__sub__: the number of differing bits.
HammingDistance(a, b) == Cardinality((a \ b) \cup (b \ a))

Range(sq) == {sq[x] : x \in DOMAIN sq}

Perms(S) ==
  {f \in [1..Cardinality(S) -> S] : \A x, y \in 1..Cardinality(S) : x # y => f[x] # f[y]}

VARIABLES
  walk,            \* the files os.walk yields under the existing directory
  content,         \* path -> content of the file
  fstat,           \* path -> FileStatus
  threshold,       \* the value of SIMILARITY_THRESHOLD in this run
  pc,              \* position in the program
  folder,          \* the folder analyze is called with: "unset", "valid", "missing"
  image_files,     \* analyze: result of scan_images
  n,               \* analyze: number of files the hashing loop has processed
  exact_hash_map,  \* analyze: insertion-ordered dict digest -> list of paths
  phash_map,       \* analyze: insertion-ordered dict path -> signature
  exact_duplicates,\* analyze: the filtered dict
  similar_groups,  \* analyze: list of groups
  visited,         \* analyze: set of paths
  files,           \* analyze: list(phash_map.keys())
  i,               \* analyze: outer loop index (1-based)
  j,               \* analyze: inner loop index (1-based)
  group,           \* analyze: the group under construction
  rows,            \* analyze: the list of row dicts
  report,          \* the report file: None or <<[columns, rows]>>
  history,         \* what the completed earlier runs scanned and wrote
  loc,             \* path -> where the file scanned at that path is now
  zone,            \* where the scanned folder lies: "default", "X" or "out"
  DRY_RUN,         \* the global DRY_RUN of the running process
  OUTPUT_SORTED,   \* the global OUTPUT_SORTED of the running process
  script,          \* "cli" (processphotogallery.py) or "standalone" (individual/)
  mode,            \* the mode of the running or last process other than analyze
  pre,             \* loc as it was when that process started
  outcome,         \* how that process ended
  runs,            \* number of such processes started
  todo,            \* clean, review: the groups of the report, as lists of paths
  gi,              \* clean, review: index of the group in hand
  ki,              \* clean: index in the group of the file in hand
  total_deleted,   \* clean: the counter
  shown,           \* review: the files of the last group shown
  action,          \* review: the action chosen for it, None before
  mv               \* a call of move_to_folder on its own and its result

vars == <<walk, content, fstat, threshold, pc, folder, image_files, n,
          exact_hash_map, phash_map, exact_duplicates, similar_groups,
          visited, files, i, j, group, rows, report, history,
          loc, zone, DRY_RUN, OUTPUT_SORTED, script, mode, pre, outcome, runs,
          todo, gi, ki, total_deleted, shown, action, mv>>

\* The state of the modes other than analyze.
filesys == <<loc, zone>>

process == <<DRY_RUN, OUTPUT_SORTED, script, mode, pre, outcome, runs>>

tool_locals == <<todo, gi, ki, total_deleted, shown, action>>

disk == <<walk, content, fstat, threshold, history, filesys, process, tool_locals, mv>>

analyze_locals == <<image_files, n, exact_hash_map, phash_map, exact_duplicates,
                    similar_groups, visited, files, i, j, group, rows>>

\* ------------------------------------------------------ fingerprints
get_file_hash(p) ==
  IF fstat[p] \in {"unhashable", "unreadable"} THEN None ELSE <<md5(content[p])>>

\* A get_phash that answers a blank signature when the decode fails.
get_phashBlank(p) ==
  IF fstat[p] \in {"undecodable", "unreadable"} THEN <<{}>> ELSE <<phash(content[p])>>

\* A get_phash inside the try block of get_file_hash: a file that has no
\* digest gets no signature either.
get_phashSharedTry(p) ==
  IF fstat[p] # "ok" THEN None ELSE <<phash(content[p])>>

get_phash(p) ==
  IF fstat[p] \in {"undecodable", "unreadable"} THEN None ELSE <<phash(content[p])>>

\* scan_images: the files of the walk whose extension is an image
\* extension, in walk order; os.walk of a missing folder yields nothing.
scan_images(fld) ==
  IF fld = "valid" THEN SelectSeq(walk, LAMBDA p : Ext(p) \in IMAGE_EXTENSIONS) ELSE <<>>

\* ------------------------------------------------------------- dicts
\* A dict of lists that puts the new path in front: insert(0, p).
DictPrepend(map, h, p) ==
  IF \E x \in 1..Len(map) : map[x].h = h
  THEN [x \in 1..Len(map) |->
          IF map[x].h = h THEN [map[x] EXCEPT !.paths = <<p>> \o @] ELSE map[x]]
  ELSE Append(map, [h |-> h, paths |-> <<p>>])

\* exact_hash_map[h].append(p) on a defaultdict(list): a new key goes to
\* the end, an existing key keeps its place.
DictAppend(map, h, p) ==
  IF \E x \in 1..Len(map) : map[x].h = h
  THEN [x \in 1..Len(map) |->
          IF map[x].h = h THEN [map[x] EXCEPT !.paths = Append(@, p)] ELSE map[x]]
  ELSE Append(map, [h |-> h, paths |-> <<p>>])

\* The filter with len(paths) >= 1.
FilterDuplicatesFromOne(map) == SelectSeq(map, LAMBDA e : Len(e.paths) >= 1)

\* {h: paths for h, paths in exact_hash_map.items() if len(paths) > 1}
FilterDuplicates(map) == SelectSeq(map, LAMBDA e : Len(e.paths) > 1)

\* The comparison with < in place of <=.
SimilarStrict(a, b) == HammingDistance(a, b) < threshold

\* distance <= SIMILARITY_THRESHOLD
Similar(a, b) == HammingDistance(a, b) <= threshold

\* Keys of a container whose iteration order changes from one process to
\* the next (a set of strings under hash randomisation).
KeysUnordered(map) ==
  IF Len(history) % 2 = 1 THEN [x \in 1..Len(map) |-> map[Len(map) + 1 - x]] ELSE map

\* list(phash_map.keys()): the keys in insertion order.
Keys(map) == map

\* A visited set that is never added to.
MarkVisitedForgotten(v, p) == v

\* visited.add(p)
MarkVisited(v, p) == v \cup {p}

\* ------------------------------------------------------------- Init
\* The local variables of analyze before its first statement.
FreshLocals ==
  /\ folder = "unset"
  /\ image_files = <<>>
  /\ n = 0
  /\ exact_hash_map = <<>>
  /\ phash_map = <<>>
  /\ exact_duplicates = <<>>
  /\ similar_groups = <<>>
  /\ visited = {}
  /\ files = <<>>
  /\ i = 1
  /\ j = 1
  /\ group = <<>>
  /\ rows = <<>>

\* No mode other than analyze has run or runs: every scanned file is at
\* its path, DRY_RUN and OUTPUT_SORTED have their values of lines 21 and 24.
ToolsIdle ==
  /\ loc = [p \in DOMAIN content |-> "orig"]
  /\ pre = loc
  /\ DRY_RUN = FALSE
  /\ OUTPUT_SORTED = "default"
  /\ script = "cli"
  /\ mode = "none"
  /\ outcome = "none"
  /\ runs = 0
  /\ todo = <<>>
  /\ gi = 1
  /\ ki = 1
  /\ total_deleted = 0
  /\ shown = <<>>
  /\ action = None

NoTools == ToolsIdle /\ mv = None

\* A directory of one file that is no image and cnt image files with any
\* contents and any of the given statuses.  The listing is in descending
\* path order: analyze uses a path only as a dict key and set member,
\* never its value, so every other listing is this one with the files
\* renamed.  The bytes of a file that does not open are never seen: its
\* content is fixed.
AnyDirectory(cnt, statuses) ==
  /\ walk = <<NotesPath>> \o [x \in 1..cnt |-> cnt + 1 - x]
  /\ content \in [ImagePaths(cnt) -> Contents]
  /\ fstat \in [ImagePaths(cnt) -> statuses]
  /\ \A p \in ImagePaths(cnt) : fstat[p] = "unreadable" => content[p] = 1

\* The program as it is: SIMILARITY_THRESHOLD is 5.
Init ==
  /\ \E cnt \in 0..MaxFiles : AnyDirectory(cnt, FileStatus)
  /\ threshold = SIMILARITY_THRESHOLD
  /\ pc = "start"
  /\ FreshLocals
  /\ report = None
  /\ history = <<>>
  /\ zone = "out"
  /\ NoTools

\* ------------------------------------------------------ entry points
\* duplicate_detector.py run as a script: the folder typed by the user is
\* handed to analyze as it is.
StandaloneMain ==
  /\ pc = "start"
  /\ \E arg \in {"valid", "missing"} : folder' = arg
  /\ pc' = "scan"
  /\ UNCHANGED <<disk, analyze_locals, report>>

\* processphotogallery_cli / processphotogallery in mode duplicate_detector:
\* get_valid_directory returns an existing --sourcepath at once and
\* otherwise starts to prompt.
CliMain ==
  /\ pc = "start"
  /\ \E arg \in {"valid", "missing"} :
       IF arg = "valid"
       THEN folder' = "valid" /\ pc' = "scan"
       ELSE folder' = folder /\ pc' = "prompt"
  /\ UNCHANGED <<disk, analyze_locals, report>>

\* One round of the prompt loop of get_valid_directory(must_exist=True).
Prompt ==
  /\ pc = "prompt"
  /\ \E user_input \in {"valid", "missing"} :
       IF user_input = "valid"
       THEN folder' = "valid" /\ pc' = "scan"
       ELSE folder' = folder /\ pc' = "prompt"
  /\ UNCHANGED <<disk, analyze_locals, report>>

\* ---------------------------------------------------------- analyze
Scan ==
  /\ pc = "scan"
  /\ image_files' = scan_images(folder)
  /\ pc' = "hash"
  /\ UNCHANGED <<disk, folder, n, exact_hash_map, phash_map, exact_duplicates,
                 similar_groups, visited, files, i, j, group, rows, report>>

\* One iteration of `for path in image_files`.
HashStep ==
  /\ pc = "hash"
  /\ n < Len(image_files)
  /\ LET path == image_files[n + 1]
         file_hash == get_file_hash(path)
         ph == get_phash(path)
     IN /\ exact_hash_map' = IF Truthy(file_hash)
                             THEN DictAppend(exact_hash_map, file_hash[1], path)
                             ELSE exact_hash_map
        /\ phash_map' = IF Truthy(ph) THEN Append(phash_map, path) ELSE phash_map
  /\ n' = n + 1
  /\ UNCHANGED <<disk, pc, folder, image_files, exact_duplicates, similar_groups,
                 visited, files, i, j, group, rows, report>>

\* An exact pass that removes every file of a digest list but the first.
ExactPassRemoving ==
  /\ pc = "hash"
  /\ n = Len(image_files)
  /\ exact_duplicates' = FilterDuplicates(exact_hash_map)
  /\ loc' = [p \in DOMAIN loc |->
               IF \E x \in 1..Len(exact_hash_map) :
                    p \in Range(Tail(exact_hash_map[x].paths))
               THEN "removed" ELSE loc[p]]
  /\ similar_groups' = <<>>
  /\ visited' = {}
  /\ files' = Keys(phash_map)
  /\ i' = 1
  /\ pc' = "outer"
  /\ UNCHANGED <<walk, content, fstat, threshold, history, zone, process, tool_locals,
                 mv, folder, image_files, n, exact_hash_map, phash_map, j, group,
                 rows, report>>

\* After the hashing loop: the exact pass and the set-up of the visual pass.
ExactPass ==
  /\ pc = "hash"
  /\ n = Len(image_files)
  /\ exact_duplicates' = FilterDuplicates(exact_hash_map)
  /\ similar_groups' = <<>>
  /\ visited' = {}
  /\ files' = Keys(phash_map)
  /\ i' = 1
  /\ pc' = "outer"
  /\ UNCHANGED <<disk, folder, image_files, n, exact_hash_map, phash_map, j, group,
                 rows, report>>

\* `for i in range(len(files))`: the loop test and the head of the body.
OuterStep ==
  /\ pc = "outer"
  /\ i <= Len(files)
  /\ IF files[i] \in visited
     THEN /\ i' = i + 1
          /\ UNCHANGED <<pc, visited, group, j>>
     ELSE /\ group' = <<files[i]>>
          /\ visited' = MarkVisited(visited, files[i])
          /\ j' = i + 1
          /\ pc' = "inner"
          /\ i' = i
  /\ UNCHANGED <<disk, folder, image_files, n, exact_hash_map, phash_map,
                 exact_duplicates, similar_groups, files, rows, report>>

\* An inner loop that compares files[j] with the member that joined the
\* group last, not with the seed.
InnerStepChained ==
  /\ pc = "inner"
  /\ j <= Len(files)
  /\ IF files[j] \in visited
     THEN UNCHANGED <<group, visited>>
     ELSE IF Similar(get_phash(group[Len(group)])[1], get_phash(files[j])[1])
          THEN /\ group' = Append(group, files[j])
               /\ visited' = MarkVisited(visited, files[j])
          ELSE UNCHANGED <<group, visited>>
  /\ j' = j + 1
  /\ UNCHANGED <<disk, pc, folder, image_files, n, exact_hash_map, phash_map,
                 exact_duplicates, similar_groups, files, i, rows, report>>

\* One iteration of `for j in range(i + 1, len(files))`: files[j] is
\* compared with the seed files[i] and with no other member of the group.
InnerStep ==
  /\ pc = "inner"
  /\ j <= Len(files)
  /\ IF files[j] \in visited
     THEN UNCHANGED <<group, visited>>
     ELSE IF Similar(get_phash(files[i])[1], get_phash(files[j])[1])
          THEN /\ group' = Append(group, files[j])
               /\ visited' = MarkVisited(visited, files[j])
          ELSE UNCHANGED <<group, visited>>
  /\ j' = j + 1
  /\ UNCHANGED <<disk, pc, folder, image_files, n, exact_hash_map, phash_map,
                 exact_duplicates, similar_groups, files, i, rows, report>>

\* End of the inner loop: `if len(group) > 1: similar_groups.append(group)`.
CloseGroup ==
  /\ pc = "inner"
  /\ j > Len(files)
  /\ similar_groups' = IF Len(group) > 1 THEN Append(similar_groups, group)
                       ELSE similar_groups
  /\ i' = i + 1
  /\ pc' = "outer"
  /\ UNCHANGED <<disk, folder, image_files, n, exact_hash_map, phash_map,
                 exact_duplicates, visited, files, j, group, rows, report>>

\* ----------------------------------------------------------- report
RECURSIVE Flatten(_)
Flatten(ss) == IF ss = <<>> THEN <<>> ELSE Head(ss) \o Flatten(Tail(ss))

\* The rows of the exact groups: dict order, and list order within.
ExactRows(dups) ==
  Flatten([x \in 1..Len(dups) |->
     [y \in 1..Len(dups[x].paths) |->
        [type |-> "exact_duplicate", group_id |-> dups[x].h,
         file_path |-> dups[x].paths[y]]]])

\* The visual rows with the groups numbered from 1.
VisualRowsFromOne(groups) ==
  Flatten([x \in 1..Len(groups) |->
     [y \in 1..Len(groups[x]) |->
        [type |-> "visual_duplicate", group_id |-> <<"visual_group", x>>,
         file_path |-> groups[x][y]]]])

\* The rows of the visual groups: enumerate() numbers them from 0.
VisualRows(groups) ==
  Flatten([x \in 1..Len(groups) |->
     [y \in 1..Len(groups[x]) |->
        [type |-> "visual_duplicate", group_id |-> <<"visual_group", x - 1>>,
         file_path |-> groups[x][y]]]])

\* pd.DataFrame(rows): the columns are the keys of the row dicts; a frame
\* made from an empty list has no column.
DataFrame(rs) ==
  [columns |-> IF rs = <<>> THEN <<>> ELSE <<"type", "group_id", "file_path">>,
   rows |-> rs]

\* End of the outer loop and the building of the rows.
BuildRows ==
  /\ pc = "outer"
  /\ i > Len(files)
  /\ rows' = ExactRows(exact_duplicates) \o VisualRows(similar_groups)
  /\ pc' = "write"
  /\ UNCHANGED <<disk, folder, image_files, n, exact_hash_map, phash_map,
                 exact_duplicates, similar_groups, visited, files, i, j, group, report>>

\* df.to_csv(DUPLICATE_REPORT, index=False): the file is replaced.
WriteReport ==
  /\ pc = "write"
  /\ report' = <<DataFrame(rows)>>
  /\ pc' = "done"
  /\ UNCHANGED <<disk, folder, analyze_locals>>

Next ==
  \/ StandaloneMain
  \/ CliMain
  \/ Prompt
  \/ Scan
  \/ HashStep
  \/ ExactPass
  \/ OuterStep
  \/ InnerStep
  \/ CloseGroup
  \/ BuildRows
  \/ WriteReport

Spec == Init /\ [][Next]_vars

\* ------------------------------------------------- a second analysis
\* Number of analyze runs over the unchanged directory.
MaxRuns == 2

\* The tool is started again after a completed run: the directory and the
\* report file are as the run left them, the locals of analyze are new.
Rerun ==
  /\ pc = "done"
  /\ Len(history) < MaxRuns - 1
  /\ history' = Append(history, [image_files |-> image_files, report |-> report[1]])
  /\ pc' = "start"
  /\ folder' = "unset"
  /\ image_files' = <<>>
  /\ n' = 0
  /\ exact_hash_map' = <<>>
  /\ phash_map' = <<>>
  /\ exact_duplicates' = <<>>
  /\ similar_groups' = <<>>
  /\ visited' = {}
  /\ files' = <<>>
  /\ i' = 1
  /\ j' = 1
  /\ group' = <<>>
  /\ rows' = <<>>
  /\ UNCHANGED <<walk, content, fstat, threshold, report, filesys, process,
                 tool_locals, mv>>

InitRerun ==
  /\ \E cnt \in 0..MaxFiles : AnyDirectory(cnt, {"ok", "undecodable", "unreadable"})
  /\ threshold = SIMILARITY_THRESHOLD
  /\ pc = "start"
  /\ FreshLocals
  /\ report = None
  /\ history = <<>>
  /\ zone = "out"
  /\ NoTools

NextRerun == Next \/ Rerun

SpecRerun == InitRerun /\ [][NextRerun]_vars

\* ------------------------------------------ the threshold configured
\* The program with SIMILARITY_THRESHOLD edited to one of Thresholds.
InitThreshold ==
  /\ \E cnt \in 0..MaxFiles : AnyDirectory(cnt, {"ok", "undecodable", "unreadable"})
  /\ threshold \in Thresholds
  /\ pc = "start"
  /\ FreshLocals
  /\ report = None
  /\ history = <<>>
  /\ zone = "out"
  /\ NoTools

SpecThreshold == InitThreshold /\ [][Next]_vars

\* ------------------------------------------- the end-to-end scenario
\* The number of positions in which two signatures differ, as the data
\* model defines the distance of two signatures.
BitsApart(a, b) == Cardinality({x \in 1..SigBits : (x \in a) # (x \in b)})

\* The directory of the end-to-end scenario: a.jpg (path 1), b.jpg (path
\* 2) with the bytes of a.jpg, c.jpg (path 3) with other bytes and within
\* the threshold of a.jpg, d.jpg (path 4) with bytes of its own and
\* further than the threshold from the three others; every file reads and
\* decodes; the listing is in any order.
InitE2E ==
  /\ \E order \in Perms(1..4) : walk = <<NotesPath>> \o [x \in 1..4 |-> order[x]]
  /\ threshold \in Thresholds
  /\ \E ca, cc, cd \in Contents :
       /\ content = <<ca, ca, cc, cd>>
       /\ Cardinality({ca, cc, cd}) = 3
       /\ BitsApart(phash(ca), phash(cc)) <= threshold
       /\ BitsApart(phash(cd), phash(ca)) > threshold
       /\ BitsApart(phash(cd), phash(cc)) > threshold
  /\ fstat = <<"ok", "ok", "ok", "ok">>
  /\ pc = "start"
  /\ FreshLocals
  /\ report = None
  /\ history = <<>>
  /\ zone = "out"
  /\ NoTools

SpecE2E == InitE2E /\ [][Next]_vars

\* ------------------------------------------- a directory of one more
\* A directory of MaxFiles + 1 files that all read and decode: the
\* smallest in which two visual groups are found.
InitNumbering ==
  /\ AnyDirectory(MaxFiles + 1, {"ok"})
  /\ threshold = SIMILARITY_THRESHOLD
  /\ pc = "start"
  /\ FreshLocals
  /\ report = None
  /\ history = <<>>
  /\ zone = "out"
  /\ NoTools

SpecNumbering == InitNumbering /\ [][Next]_vars

\* ==================================================== the other modes
\* The file scanned at a path is at that path ("orig"), in the trash
\* (send2trash), removed (os.remove), or moved under one of the two
\* output folders: the folder that OUTPUT_SORTED names at import
\* ("default") and the folder given with --output ("X").
Bases == {"default", "X"}

\* The scanned folder lies inside one of the two folders or in neither.
Zones == {"default", "X", "out"}

\* Number of processes of the modes other than analyze.
MaxToolRuns == 2

\* The contents of the files the other modes are run on: content 1,
\* content 4 far from it, content 5 of other bytes and the signature of
\* content 1.
ToolContents == {1, 4, 5}

\* os.path.exists(p) for a path of the report.
Exists(p) == loc[p] = "orig"

\* The default of the parameter base_folder of move_to_folder of the
\* cli: the default of a parameter is evaluated once, when the def
\* statement runs, so it is the OUTPUT_SORTED of line 24.  OUTPUT_BASE of
\* the standalone reviewer is a folder of its own; it is named the same.
base_folder_default == "default"

\* move_to_folder of the cli on the files of the scanned folder: a file
\* of a folder inside base_folder is left alone, another is moved under
\* it; shutil.move raises or not (moves).  The test on the characters of
\* the paths is MoveToFolder below.
move_to_folder(p, base_folder, moves) ==
  IF zone = base_folder
  THEN [result |-> FALSE, place |-> "orig"]
  ELSE IF moves
       THEN [result |-> TRUE, place |-> base_folder]
       ELSE [result |-> FALSE, place |-> "orig"]

\* move_to_folder of the standalone reviewer: no test of the place.
move_to_folder_standalone(p, moves) ==
  IF moves
  THEN [result |-> TRUE, place |-> base_folder_default]
  ELSE [result |-> FALSE, place |-> "orig"]

\* The move of the script that runs.
Move(p, moves) ==
  IF script = "cli"
  THEN move_to_folder(p, base_folder_default, moves)
  ELSE move_to_folder_standalone(p, moves)

\* A groupby that hands out the rows of a group last row first.
GroupByReversed(df, type) ==
  LET sel == SelectSeq(df.rows, LAMBDA r : r.type = type)
      ids == {sel[x].group_id : x \in 1..Len(sel)}
      keys == CHOOSE s \in [1..Cardinality(ids) -> ids] :
                \A x, y \in 1..Cardinality(ids) : x < y => s[x][2] < s[y][2]
  IN [x \in 1..Cardinality(ids) |->
        LET grp == SelectSeq(sel, LAMBDA r : r.group_id = keys[x])
        IN [y \in 1..Len(grp) |-> grp[Len(grp) + 1 - y].file_path]]

\* df[df["type"] == type].groupby("group_id") as the list of the lists
\* group["file_path"].tolist(): the groups by ascending key (the digests
\* in their order, visual_group_0 to visual_group_9 in theirs), the rows
\* of a group in the order of the report.
GroupBy(df, type) ==
  LET sel == SelectSeq(df.rows, LAMBDA r : r.type = type)
      ids == {sel[x].group_id : x \in 1..Len(sel)}
      keys == CHOOSE s \in [1..Cardinality(ids) -> ids] :
                \A x, y \in 1..Cardinality(ids) : x < y => s[x][2] < s[y][2]
  IN [x \in 1..Cardinality(ids) |->
        LET grp == SelectSeq(sel, LAMBDA r : r.group_id = keys[x])
        IN [y \in 1..Len(grp) |-> grp[y].file_path]]

\* The locals of clean_exact_duplicates and review_visual_duplicates
\* before their first statement.
FreshTool ==
  /\ todo' = <<>>
  /\ gi' = 1
  /\ ki' = 1
  /\ total_deleted' = 0
  /\ shown' = <<>>
  /\ action' = None

\* The position a mode starts at.
Entry(m) ==
  CASE m = "clean" -> "clean_read"
    [] m = "review" -> "review_read"
    [] m = "sort" -> "sort"

\* processphotogallery_cli in a mode other than duplicate_detector: the
\* globals are set from --dryrun and --output, then the mode is run.
CliTool ==
  /\ pc \in {"start", "done", "exit"}
  /\ runs < MaxToolRuns
  /\ \E m \in {"sort", "clean", "review"}, dryrun \in BOOLEAN, output \in Bases :
       /\ DRY_RUN' = dryrun
       /\ OUTPUT_SORTED' = output
       /\ mode' = m
       /\ pc' = Entry(m)
  /\ script' = "cli"
  /\ runs' = runs + 1
  /\ pre' = loc
  /\ outcome' = "none"
  /\ FreshTool
  /\ UNCHANGED <<walk, content, fstat, threshold, history, folder, analyze_locals,
                 report, filesys, mv>>

\* clean_exact_duplicates.py or review_visual_duplicates.py run as a
\* script: DRY_RUN is the False of the script, the output folder its own.
StandaloneTool ==
  /\ pc \in {"start", "done", "exit"}
  /\ runs < MaxToolRuns
  /\ \E m \in {"clean", "review"} :
       /\ mode' = m
       /\ pc' = Entry(m)
  /\ DRY_RUN' = FALSE
  /\ OUTPUT_SORTED' = base_folder_default
  /\ script' = "standalone"
  /\ runs' = runs + 1
  /\ pre' = loc
  /\ outcome' = "none"
  /\ FreshTool
  /\ UNCHANGED <<walk, content, fstat, threshold, history, folder, analyze_locals,
                 report, filesys, mv>>

\* The head of clean_exact_duplicates (type "exact_duplicate") and of
\* review_visual_duplicates (type "visual_duplicate") up to the loop over
\* the groups.  The cli tests that the report exists and that the frame
\* is not empty; the standalone scripts test neither.  pd.read_csv of a
\* file without a header row raises EmptyDataError.
ReadReport(type, loop) ==
  /\ IF report = None
     THEN /\ outcome' = IF script = "cli" THEN "report_not_found" ELSE "FileNotFoundError"
          /\ pc' = "exit"
          /\ todo' = todo
     ELSE IF report[1].columns = <<>>
     THEN /\ outcome' = "EmptyDataError"
          /\ pc' = "exit"
          /\ todo' = todo
     ELSE IF report[1].rows = <<>> /\ script = "cli"
     THEN /\ outcome' = "no_duplicates"
          /\ pc' = "exit"
          /\ todo' = todo
     ELSE /\ outcome' = outcome
          /\ pc' = loop
          /\ todo' = GroupBy(report[1], type)
  /\ gi' = 1
  /\ ki' = 2
  /\ total_deleted' = 0
  /\ UNCHANGED <<walk, content, fstat, threshold, history, folder, analyze_locals,
                 report, filesys, DRY_RUN, OUTPUT_SORTED, script, mode, pre, runs,
                 shown, action, mv>>

CleanRead ==
  /\ pc = "clean_read"
  /\ ReadReport("exact_duplicate", "clean")

\* One step of the loops of clean_exact_duplicates: the next group, or
\* the next file of delete_files = files[1:].
CleanStep ==
  /\ pc = "clean"
  /\ gi <= Len(todo)
  /\ IF ki > Len(todo[gi])
     THEN /\ gi' = gi + 1
          /\ ki' = 2
          /\ UNCHANGED <<loc, total_deleted>>
     ELSE /\ IF Exists(todo[gi][ki]) /\ ~DRY_RUN
             THEN /\ loc' = [loc EXCEPT ![todo[gi][ki]] = "removed"]
                  /\ total_deleted' = total_deleted + 1
             ELSE UNCHANGED <<loc, total_deleted>>
          /\ ki' = ki + 1
          /\ gi' = gi
  /\ UNCHANGED <<walk, content, fstat, threshold, history, pc, folder, analyze_locals,
                 report, zone, process, todo, shown, action, mv>>

\* The end of clean_exact_duplicates: the total is printed, or the dry
\* run notice.
CleanFinish ==
  /\ pc = "clean"
  /\ gi > Len(todo)
  /\ outcome' = IF DRY_RUN THEN "dry_run" ELSE "total"
  /\ pc' = "exit"
  /\ UNCHANGED <<walk, content, fstat, threshold, history, folder, analyze_locals,
                 report, filesys, DRY_RUN, OUTPUT_SORTED, script, mode, pre, runs,
                 tool_locals, mv>>

\* -------------------------------------------------------- the review
ActionTypes(s) ==
  IF s = "cli"
  THEN {"delete_all", "skip", "keep_best", "keep_index", "keep_selected", "delete_selected"}
  ELSE {"delete_all", "skip", "keep_best", "keep_index"}

\* get_largest_file(files) is max(files, key=os.path.getsize): the index
\* of a file that no earlier file of the same bytes precedes (max returns
\* the first of the largest); the sizes are any.
LargestIndices(fs) ==
  {x \in 1..Len(fs) : \A y \in 1..(x - 1) : content[fs[y]] # content[fs[x]]}

\* The actions the window of a group can end with: the type, the index
\* of keep_index (of the largest file for keep_best), the checked boxes.
Actions(fs) ==
  {a \in [type : ActionTypes(script), value : 0..Len(fs), selected : SUBSET (1..Len(fs))] :
     /\ a.type = "keep_index" => a.value \in 1..Len(fs)
     /\ a.type = "keep_best" => a.value \in LargestIndices(fs)
     /\ a.type \notin {"keep_index", "keep_best"} => a.value = 0
     /\ a.type \notin {"keep_selected", "delete_selected"} => a.selected = {}}

\* The keep actions of the cli trash the other files whatever the move
\* of the kept file returns; the standalone reviewer only if it is True.
TrashOthers(result) == script = "cli" \/ result

\* The place of the file at index x of the group after the action a,
\* where moves says whether shutil.move succeeds during the action: the
\* output folder can be written to, or it cannot.
PlaceAfter(fs, a, moves, x) ==
  CASE a.type = "delete_all" -> "trash"
    [] a.type = "skip" -> Move(fs[x], moves).place
    [] a.type \in {"keep_best", "keep_index"} ->
         IF x = a.value THEN Move(fs[x], moves).place
         ELSE IF TrashOthers(Move(fs[a.value], moves).result) THEN "trash"
         ELSE "orig"
    [] a.type = "keep_selected" ->
         IF x \in a.selected THEN Move(fs[x], moves).place ELSE "trash"
    [] a.type = "delete_selected" ->
         IF x \in a.selected THEN "trash" ELSE Move(fs[x], moves).place

ReviewRead ==
  /\ pc = "review_read"
  /\ ReadReport("visual_duplicate", "review")

\* One iteration of the loop over the groups of review_visual_duplicates:
\* a group with fewer than 2 files left is passed over, else the window
\* is shown and the action it ends with is carried out; a closed window
\* is no action.
ReviewGroup ==
  /\ pc = "review"
  /\ gi <= Len(todo)
  /\ LET fs == SelectSeq(todo[gi], Exists)
     IN IF Len(fs) < 2
        THEN UNCHANGED <<loc, shown, action>>
        ELSE /\ shown' = fs
             /\ \/ /\ action' = None
                   /\ loc' = loc
                \/ \E a \in Actions(fs), moves \in BOOLEAN :
                     /\ action' = <<a>>
                     /\ loc' = [p \in DOMAIN loc |->
                                  IF \E x \in 1..Len(fs) : fs[x] = p
                                  THEN PlaceAfter(fs, a, moves,
                                                  CHOOSE x \in 1..Len(fs) : fs[x] = p)
                                  ELSE loc[p]]
  /\ gi' = gi + 1
  /\ UNCHANGED <<walk, content, fstat, threshold, history, pc, folder, analyze_locals,
                 report, zone, process, todo, ki, total_deleted, mv>>

\* The end of review_visual_duplicates: "Done reviewing."
ReviewFinish ==
  /\ pc = "review"
  /\ gi > Len(todo)
  /\ outcome' = "done_reviewing"
  /\ pc' = "exit"
  /\ UNCHANGED <<walk, content, fstat, threshold, history, folder, analyze_locals,
                 report, filesys, DRY_RUN, OUTPUT_SORTED, script, mode, pre, runs,
                 tool_locals, mv>>

\* ---------------------------------------------------------- the sort
\* sort_all_media on the scanned folder: a folder whose path starts with
\* OUTPUT_SORTED is passed over; every image of another is moved under
\* OUTPUT_SORTED by move_to_sorted_folder, whose shutil.move raises or
\* not (the output folder can be written to, or it cannot).  DRY_RUN is
\* not read.
SortAll ==
  /\ pc = "sort"
  /\ \E moves \in BOOLEAN :
       loc' = [p \in DOMAIN loc |->
                 IF Exists(p) /\ zone # OUTPUT_SORTED /\ moves
                 THEN OUTPUT_SORTED ELSE loc[p]]
  /\ outcome' = "sorted"
  /\ pc' = "exit"
  /\ UNCHANGED <<walk, content, fstat, threshold, history, folder, analyze_locals,
                 report, zone, DRY_RUN, OUTPUT_SORTED, script, mode, pre, runs,
                 tool_locals, mv>>

\* ------------------------------------------- move_to_folder on paths
\* A path is the sequence of its characters.
Sep == "/"

\* Number of names of the longest path.
MaxDepth == 3

\* The names of folders and files: "s", "s2" and "p".
Names == {<<"s">>, <<"s", "2">>, <<"p">>}

\* The current directory, "/p".
Cwd == <<Sep, "p">>

\* The relative paths of 1 to d names.
RECURSIVE RelPaths(_)
RelPaths(d) ==
  IF d = 0 THEN {}
  ELSE Names \cup {q \o <<Sep>> \o nm : q \in RelPaths(d - 1), nm \in Names}

\* The ways to write a path of up to d names: absolute, or relative to
\* the current directory, and with a separator at its end or not.
Spellings(d) ==
  LET plain == RelPaths(d) \cup {<<Sep>> \o q : q \in RelPaths(d)}
  IN plain \cup {q \o <<Sep>> : q \in plain}

\* os.path.abspath: a relative path is joined to the current directory
\* and a separator at the end is dropped.
abspath(path) ==
  LET joined == IF path[1] = Sep THEN path ELSE Cwd \o <<Sep>> \o path
  IN IF Len(joined) > 1 /\ joined[Len(joined)] = Sep
     THEN SubSeq(joined, 1, Len(joined) - 1) ELSE joined

\* os.path.basename: what follows the last separator.
basename(path) ==
  LET seps == {x \in 1..Len(path) : path[x] = Sep}
      last == IF seps = {} THEN 0 ELSE CHOOSE x \in seps : \A y \in seps : y <= x
  IN SubSeq(path, last + 1, Len(path))

\* str.startswith
StartsWith(s, prefix) == Len(prefix) <= Len(s) /\ SubSeq(s, 1, Len(prefix)) = prefix

\* The test without the separator: abs_path.startswith(abs_base).
AlreadySortedByPrefix(abs_path, abs_base) == StartsWith(abs_path, abs_base)

\* abs_path.startswith(abs_base + os.sep) or abs_path == abs_base
AlreadySorted(abs_path, abs_base) ==
  StartsWith(abs_path, abs_base \o <<Sep>>) \/ abs_path = abs_base

\* The folder of the date under the base folder, "Unknown" or year/month.
DateFolder == <<"d">>

\* A call move_to_folder(file_path, base_folder) from its first statement
\* to its return: the file is at its path before, at mv.at after.  The
\* destination is free in the model, so no counter is appended.
MoveToFolder ==
  /\ pc = "move"
  /\ LET abs_path == abspath(mv[1].file_path)
         abs_base == abspath(mv[1].base_folder)
         target_folder == abs_base \o <<Sep>> \o DateFolder
         destination == target_folder \o <<Sep>> \o basename(mv[1].file_path)
     IN IF AlreadySorted(abs_path, abs_base)
        THEN mv' = <<[mv[1] EXCEPT !.result = "False"]>>
        ELSE IF mv[1].moves
             THEN mv' = <<[mv[1] EXCEPT !.result = "True", !.at = destination]>>
             ELSE mv' = <<[mv[1] EXCEPT !.result = "False"]>>
  /\ pc' = "exit"
  /\ UNCHANGED <<walk, content, fstat, threshold, history, folder, analyze_locals,
                 report, filesys, process, tool_locals>>

\* Any call of move_to_folder: a file path of up to MaxDepth names that
\* does not end in a separator, a base folder of fewer names, and a
\* shutil.move that raises or not.
InitMove ==
  /\ AnyDirectory(0, {"ok"})
  /\ threshold = SIMILARITY_THRESHOLD
  /\ pc = "move"
  /\ FreshLocals
  /\ report = None
  /\ history = <<>>
  /\ zone = "out"
  /\ ToolsIdle
  /\ \E file_path \in {q \in Spellings(MaxDepth) : q[Len(q)] # Sep},
        base_folder \in Spellings(MaxDepth - 1), moves \in BOOLEAN :
       mv = <<[file_path |-> file_path, base_folder |-> base_folder, moves |-> moves,
               result |-> "pending", at |-> abspath(file_path)]>>

NextMove == MoveToFolder

SpecMove == InitMove /\ [][NextMove]_vars

\* The modes run one after another, on a folder of MaxFiles files that
\* all read and decode.  Contents 1 and 5 differ in nothing but their
\* bytes, so of two folders that differ by exchanging them one is taken:
\* the one where content 1 is scanned before content 5.
InitTools ==
  /\ AnyDirectory(MaxFiles, {"ok"})
  /\ \A p \in DOMAIN content :
       /\ content[p] \in ToolContents
       /\ content[p] = 5 => \E q \in DOMAIN content : q > p /\ content[q] = 1
  /\ threshold = SIMILARITY_THRESHOLD
  /\ pc = "start"
  /\ FreshLocals
  /\ report = None
  /\ history = <<>>
  /\ zone \in Zones
  /\ NoTools

NextTools ==
  \/ Next
  \/ CliTool
  \/ StandaloneTool
  \/ CleanRead
  \/ CleanStep
  \/ CleanFinish
  \/ ReviewRead
  \/ ReviewGroup
  \/ ReviewFinish
  \/ SortAll

SpecTools == InitTools /\ [][NextTools]_vars

\* ===================================================== the properties

Done == pc = "done"

\* The files of the scan, and the place of a file in the scan.
Scanned == Range(image_files)

ScanPos(p) == CHOOSE x \in 1..Len(image_files) : image_files[x] = p

\* The files whose bytes can be read, and the files that decode.
Reads(p) == fstat[p] \in {"ok", "undecodable"}

Decodes(p) == fstat[p] \in {"ok", "unhashable"}

Sig(p) == phash(content[p])

\* The rows of the report file.
ReportRows == IF report = None THEN <<>> ELSE report[1].rows

RowsOf(type) == {x \in 1..Len(ReportRows) : ReportRows[x].type = type}

GroupIds(type) == {ReportRows[x].group_id : x \in RowsOf(type)}

GroupIdsOf(type, p) ==
  {ReportRows[x].group_id : x \in {y \in RowsOf(type) : ReportRows[y].file_path = p}}

Members(type, gid) ==
  {ReportRows[x].file_path : x \in {y \in RowsOf(type) : ReportRows[y].group_id = gid}}

SameGroup(type, p, q) == GroupIdsOf(type, p) \cap GroupIdsOf(type, q) # {}

\* Number of places of the list of lists ss that hold p.
Occurrences(ss, p) ==
  LET flat == Flatten(ss) IN Cardinality({x \in 1..Len(flat) : flat[x] = p})

\* The graph of the visual pass: an edge joins two decoded files whose
\* signatures differ in at most threshold bits.
Linked(p, q) == BitsApart(Sig(p), Sig(q)) <= threshold

RECURSIVE Reach(_, _)
Reach(S, V) ==
  LET nxt == S \cup {q \in V : \E p \in S : Linked(p, q)}
  IN IF nxt = S THEN S ELSE Reach(nxt, V)

Connected(p, q) == q \in Reach({p}, {f \in Scanned : Decodes(f)})

\* ----------------------------------------------------------------- C2
\* C2: in the finished report two decoded files share a visual group if
\* and only if a chain of within-threshold links connects them (the visual
\* groups are the connected components of size >= 2 of the threshold graph).
C2_ConnectedComponents ==
  Done =>
    \A p, q \in {f \in Scanned : Decodes(f)} :
      p # q => (SameGroup("visual_duplicate", p, q) <=> Connected(p, q))

\* ----------------------------------------------------------------- C3
\* C3: at every step of analyze, every file is in at most one list of the
\* digest map, in at most one exact group, in at most one visual group
\* built so far (the group under construction included) and in at most one
\* row of each type of the report.
C3_AtMostOneGroupPerKind ==
  \A p \in Scanned :
    /\ Occurrences([x \in 1..Len(exact_hash_map) |-> exact_hash_map[x].paths], p) <= 1
    /\ Occurrences([x \in 1..Len(exact_duplicates) |-> exact_duplicates[x].paths], p) <= 1
    /\ Occurrences(IF pc = "inner" THEN Append(similar_groups, group) ELSE similar_groups, p) <= 1
    /\ \A type \in {"exact_duplicate", "visual_duplicate"} :
         Cardinality({x \in RowsOf(type) : ReportRows[x].file_path = p}) <= 1

\* The clustering loop, one group built, stands at a file that is within
\* the threshold of the present seed and is already in the earlier group.
C3_Witness ==
  /\ pc = "inner"
  /\ j <= Len(files)
  /\ Len(similar_groups) = 1
  /\ Occurrences(similar_groups, files[j]) = 1
  /\ Linked(files[i], files[j])

\* ----------------------------------------------------------------- C4
\* C4: in the finished report two files with a digest share an exact group
\* if and only if their digests are equal, a digest is a group id exactly
\* when at least 2 scanned files have it, the members of that group are
\* the files with that digest, and no group of either kind has fewer than
\* 2 members.
C4_ExactPass ==
  Done =>
    LET hashed == {f \in Scanned : Reads(f)}
        class(h) == {f \in hashed : md5(content[f]) = h}
    IN /\ \A p, q \in hashed :
            p # q => (SameGroup("exact_duplicate", p, q)
                        <=> md5(content[p]) = md5(content[q]))
       /\ \A c \in Contents :
            /\ md5(c) \in GroupIds("exact_duplicate") <=> Cardinality(class(md5(c))) >= 2
            /\ md5(c) \in GroupIds("exact_duplicate") =>
                 Members("exact_duplicate", md5(c)) = class(md5(c))
       /\ GroupIds("exact_duplicate") \subseteq {md5(c) : c \in Contents}
       /\ \A type \in {"exact_duplicate", "visual_duplicate"} :
            \A gid \in GroupIds(type) : Cardinality(Members(type, gid)) >= 2

\* A finished run with one exact group and one digest that a single file
\* has, which is no group.
C4_Witness ==
  /\ Done
  /\ Cardinality(GroupIds("exact_duplicate")) = 1
  /\ \E p \in Scanned : Reads(p) /\ GroupIdsOf("exact_duplicate", p) = {}

\* ----------------------------------------------------------------- C5
\* C5 as stated: the report of the scenario holds one exact group {a, b}
\* and exactly one visual group, of 2 members, c and one of a and b; d is
\* in no group.
C5_Original ==
  (Done /\ folder = "valid") =>
    /\ \E h \in GroupIds("exact_duplicate") :
         /\ GroupIds("exact_duplicate") = {h}
         /\ Members("exact_duplicate", h) = {1, 2}
    /\ \E g \in GroupIds("visual_duplicate") :
         /\ GroupIds("visual_duplicate") = {g}
         /\ Members("visual_duplicate", g) \in {{1, 3}, {2, 3}}
    /\ \A x \in 1..Len(ReportRows) : ReportRows[x].file_path # 4

\* C5 amended: the report of the scenario holds one exact group {a, b} and
\* exactly one visual group, of 3 members: a, b and c; d is in no group.
C5_EndToEnd ==
  (Done /\ folder = "valid") =>
    /\ \E h \in GroupIds("exact_duplicate") :
         /\ GroupIds("exact_duplicate") = {h}
         /\ Members("exact_duplicate", h) = {1, 2}
    /\ \E g \in GroupIds("visual_duplicate") :
         /\ GroupIds("visual_duplicate") = {g}
         /\ Members("visual_duplicate", g) = {1, 2, 3}
    /\ \A x \in 1..Len(ReportRows) : ReportRows[x].file_path # 4
    /\ Len(ReportRows) = 5

\* The scenario analysed to the end with c.jpg scanned first, d.jpg second
\* and at a non-zero distance between a.jpg and c.jpg.
C5_Witness ==
  /\ Done
  /\ folder = "valid"
  /\ image_files[1] = 3
  /\ image_files[2] = 4
  /\ BitsApart(Sig(1), Sig(3)) > 0
  /\ Len(ReportRows) = 5

\* ----------------------------------------------------------------- C6
\* C6: in the finished report a file that reads and does not decode
\* shares an exact group with every other scanned file that has the same
\* digest, and is in no visual group; at no step is it a key of the
\* signature map or a member of a visual group under construction.
C6_UndecodableFile ==
  \A p \in Scanned :
    fstat[p] = "undecodable" =>
      /\ p \notin Range(phash_map)
      /\ p \notin Range(group)
      /\ Occurrences(similar_groups, p) = 0
      /\ Done =>
           /\ GroupIdsOf("visual_duplicate", p) = {}
           /\ \A q \in Scanned \ {p} :
                (Reads(q) /\ md5(content[q]) = md5(content[p])) =>
                   SameGroup("exact_duplicate", p, q)

\* A finished run where an undecodable file is in an exact group with a
\* decoded file of the same bytes, which is itself in a visual group.
C6_Witness ==
  /\ Done
  /\ \E p, q \in Scanned :
       /\ fstat[p] = "undecodable"
       /\ fstat[q] = "ok"
       /\ SameGroup("exact_duplicate", p, q)
       /\ GroupIdsOf("visual_duplicate", q) # {}

\* ----------------------------------------------------------------- C7
\* C7: in the finished report, with threshold 0 two decoded files share a
\* visual group if and only if their signatures are equal; with threshold
\* 64 and at least 2 decoded files there is one visual group and it holds
\* every decoded file.
C7_ThresholdBoundaries ==
  Done =>
    LET signed == {f \in Scanned : Decodes(f)}
    IN /\ threshold = 0 =>
            \A p, q \in signed :
              p # q => (SameGroup("visual_duplicate", p, q) <=> Sig(p) = Sig(q))
       /\ (threshold = SigBits /\ Cardinality(signed) >= 2) =>
            \E g \in GroupIds("visual_duplicate") :
              /\ GroupIds("visual_duplicate") = {g}
              /\ Members("visual_duplicate", g) = signed

\* A finished run with threshold 64 whose visual group holds two files
\* that differ in all 64 bits.
C7_Witness ==
  /\ Done
  /\ threshold = SigBits
  /\ \E p, q \in Scanned :
       /\ Decodes(p) /\ Decodes(q)
       /\ BitsApart(Sig(p), Sig(q)) = SigBits
       /\ SameGroup("visual_duplicate", p, q)

C9_MembersInScanOrder ==
  Done =>
    \A x, y \in 1..Len(ReportRows) :
      (/\ x < y
       /\ ReportRows[x].type = ReportRows[y].type
       /\ ReportRows[x].group_id = ReportRows[y].group_id)
      => ScanPos(ReportRows[x].file_path) < ScanPos(ReportRows[y].file_path)

\* A finished run over 3 files, listed in another order than that of
\* their paths, with an exact group of 3 files and a visual group.
C9_Witness ==
  /\ Done
  /\ image_files = <<3, 2, 1>>
  /\ \E h \in GroupIds("exact_duplicate") : Members("exact_duplicate", h) = {1, 2, 3}
  /\ GroupIds("visual_duplicate") # {}

\* ---------------------------------------------------------------- C10
\* C10: when the threshold is outside 0..64 or the folder analyze is given
\* does not exist, no file is scanned, no fingerprint is computed and no
\* report is written.
C10_ConfigurationRejected ==
  (threshold \notin 0..SigBits \/ folder = "missing") =>
    /\ image_files = <<>>
    /\ n = 0
    /\ report = None

\* ---------------------------------------------------------------- C11
\* The positions of analyze after the hashing loop.
HashingOver == pc \in {"outer", "inner", "write", "done"}

\* C11: whichever files fail to be read or decoded, the run never stops
\* before the report is written; once the hashing loop is over every
\* scanned file has been processed, the digest map holds exactly the files
\* that read and the visual pass exactly the files that decode; in the
\* finished report two readable files of equal bytes share an exact group
\* whether or not they decode, and two decoded files of equal signature
\* share a visual group whether or not they read.
C11_ErrorsDoNotAbort ==
  /\ (~Done) => ENABLED Next
  /\ HashingOver =>
       /\ n = Len(image_files)
       /\ \A p \in Scanned :
            /\ Reads(p) <=> \E x \in 1..Len(exact_hash_map) :
                              p \in Range(exact_hash_map[x].paths)
            /\ Decodes(p) <=> p \in Range(files)
  /\ Done =>
       /\ report # None
       /\ \A p, q \in Scanned :
            p # q =>
              /\ (Reads(p) /\ Reads(q) /\ content[p] = content[q])
                   => SameGroup("exact_duplicate", p, q)
              /\ (Decodes(p) /\ Decodes(q) /\ Sig(p) = Sig(q))
                   => SameGroup("visual_duplicate", p, q)

\* A finished run over three files of the same bytes: the first scanned
\* gives no digest, the second does not decode, the third does not open;
\* the report holds no exact group and no visual group.
C11_Witness ==
  /\ Done
  /\ Len(image_files) = 3
  /\ fstat[image_files[1]] = "unhashable"
  /\ fstat[image_files[2]] = "undecodable"
  /\ fstat[image_files[3]] = "unreadable"
  /\ content[image_files[1]] = content[image_files[2]]
  /\ report # None
  /\ ReportRows = <<>>

\* ---------------------------------------------------------------- C12
\* The earliest scan position of a set of scanned files.
FirstPos(S) == CHOOSE x \in {ScanPos(p) : p \in S} : \A q \in S : x <= ScanPos(q)

\* The pairs (group id, member) of the rows of a type.
RowPairs(type) == {<<ReportRows[x].group_id, ReportRows[x].file_path>> : x \in RowsOf(type)}

\* C12: in the finished report every row is an exact or a visual row and
\* no pair (type, group id, file) has two rows; the exact rows are the
\* pairs (digest, file) of the readable files whose bytes another readable
\* file has; the visual rows are the pairs (visual_group_k, member) of the
\* groups analyze found, k running from 0 to their number less one, and a
\* group of lower k has its first scanned member earlier in the scan.
C12_ReportRows ==
  Done =>
    LET vis == GroupIds("visual_duplicate")
    IN /\ \A x \in 1..Len(ReportRows) :
            ReportRows[x].type \in {"exact_duplicate", "visual_duplicate"}
       /\ \A x, y \in 1..Len(ReportRows) : ReportRows[x] = ReportRows[y] => x = y
       /\ RowPairs("exact_duplicate") =
            {<<md5(content[p]), p>> :
               p \in {f \in Scanned : Reads(f) /\ \E q \in Scanned \ {f} :
                                         Reads(q) /\ content[q] = content[f]}}
       /\ RowPairs("visual_duplicate") =
            UNION {{<<(<<"visual_group", k - 1>>), similar_groups[k][y]>> :
                      y \in 1..Len(similar_groups[k])} : k \in 1..Len(similar_groups)}
       /\ vis = {<<"visual_group", k>> : k \in 0..(Cardinality(vis) - 1)}
       /\ \A g, h \in vis :
            g[2] < h[2] => FirstPos(Members("visual_duplicate", g))
                             < FirstPos(Members("visual_duplicate", h))

\* A finished report with an exact group and the visual groups
\* visual_group_0 and visual_group_1.
C12_Witness ==
  /\ Done
  /\ GroupIds("exact_duplicate") # {}
  /\ GroupIds("visual_duplicate") = {<<"visual_group", 0>>, <<"visual_group", 1>>}

\* ---------------------------------------------------------------- C13
\* C13: every report analyze has written starts with the header row
\* type, group_id, file_path, also when it holds no row.
C13_HeaderAlways ==
  Done => report[1].columns = <<"type", "group_id", "file_path">>

\* ---------------------------------------------------------------- C14
\* The positions inside analyze and inside the other modes.
InAnalyze == pc \in {"prompt", "scan", "hash", "outer", "inner", "write"}

InTool == pc \in {"clean_read", "clean", "review_read", "review", "sort"}

\* C14: no step of analyze changes the listing of the scanned folder, the
\* bytes or the readability of a file or the place of a file, and the
\* only step of analyze that changes the report file is the write at its
\* end; the place of a file changes only in a step of the cleaner, the
\* reviewer or the sort.
C14_AnalyzeReadOnly ==
  [][/\ (InAnalyze \/ pc' \in {"prompt", "scan"}) =>
          /\ UNCHANGED <<walk, content, fstat, loc>>
          /\ report' # report => pc = "write"
     /\ loc' # loc => pc \in {"clean", "review", "sort"}]_vars

\* A finished analysis that found an exact group and a visual group, with
\* every scanned file at its path.
C14_Witness ==
  /\ Done
  /\ runs = 0
  /\ GroupIds("exact_duplicate") # {}
  /\ GroupIds("visual_duplicate") # {}
  /\ \A p \in Scanned : loc[p] = "orig"

\* ---------------------------------------------------------------- C15
\* The first listed file of a group of the report.
FirstOf(type, gid) ==
  ReportRows[CHOOSE x \in RowsOf(type) :
               /\ ReportRows[x].group_id = gid
               /\ \A y \in RowsOf(type) : ReportRows[y].group_id = gid => x <= y].file_path

\* The files with a row of a type.
Listed(type) == {ReportRows[x].file_path : x \in RowsOf(type)}

\* The files removed or trashed since the running or last process started.
LostSince == {p \in DOMAIN loc : loc[p] \in {"removed", "trash"} /\ pre[p] # loc[p]}

\* The cleaner has run to its end with DRY_RUN off on a report whose
\* listed files were all at their paths when it started.
CleanedAll ==
  /\ pc = "exit"
  /\ mode = "clean"
  /\ outcome = "total"
  /\ ~DRY_RUN
  /\ \A x \in 1..Len(ReportRows) : pre[ReportRows[x].file_path] = "orig"

\* C15: after such a run, of every exact group the first listed file is
\* at its path and every other member is removed, a file without an
\* exact row is where it was, and the total printed is the number of
\* files removed.
C15_CleanKeepsFirst ==
  CleanedAll =>
    /\ \A gid \in GroupIds("exact_duplicate") :
         /\ loc[FirstOf("exact_duplicate", gid)] = "orig"
         /\ \A p \in Members("exact_duplicate", gid) \ {FirstOf("exact_duplicate", gid)} :
              loc[p] = "removed"
    /\ \A p \in DOMAIN loc : p \notin Listed("exact_duplicate") => loc[p] = pre[p]
    /\ total_deleted = Cardinality(LostSince)

\* Such a run on a report with an exact group of two files and a visual
\* group that holds a file of no exact group: one file is removed.
C15_Witness ==
  /\ CleanedAll
  /\ total_deleted = 1
  /\ Listed("visual_duplicate") \ Listed("exact_duplicate") # {}

\* ---------------------------------------------------------------- C16
\* C16: in a process of the cli started with --dryrun no file is removed
\* and none is sent to the trash.
C16_DryRunDeletesNothing ==
  (script = "cli" /\ DRY_RUN) => LostSince = {}

\* ---------------------------------------------------------------- C18
\* C18: in a process of the cli started with --output X every file moved
\* is under X afterwards, and a file of a folder inside X is not moved.
C18_OutputIsX ==
  (script = "cli" /\ OUTPUT_SORTED = "X") =>
    \A p \in DOMAIN loc :
      /\ (pre[p] = "orig" /\ loc[p] \in Bases) => loc[p] = "X"
      /\ (pre[p] = "orig" /\ zone = "X") => loc[p] \notin Bases

\* ---------------------------------------------------------------- C19
\* The files still on disk: at their path or moved under an output folder.
OnDisk == {p \in DOMAIN loc : loc[p] \in {"orig"} \cup Bases}

\* C19: a step that removes a listed file is taken only when another
\* member of its exact group is on disk.
C19_NeverDeletesLastCopy ==
  [][\A p \in DOMAIN loc :
       (loc'[p] = "removed" /\ loc[p] # "removed") =>
         \E q \in OnDisk \ {p} : SameGroup("exact_duplicate", p, q)]_vars

\* ---------------------------------------------------------------- C20
\* The indices of the files the action a designates as kept.
Kept(a, fs) ==
  CASE a.type \in {"keep_index", "keep_best"} -> {a.value}
    [] a.type = "keep_selected" -> a.selected
    [] a.type = "delete_selected" -> (1..Len(fs)) \ a.selected
    [] a.type = "skip" -> 1..Len(fs)
    [] OTHER -> {}

\* C20: after an action other than delete_all on a group shown, at least
\* one file of the group is not in the trash, and no file the action
\* designates as kept is in the trash.
C20_ReviewKeepsOne ==
  (mode = "review" /\ action # None /\ action[1].type # "delete_all") =>
    /\ \E x \in 1..Len(shown) : loc[shown[x]] # "trash"
    /\ \A x \in Kept(action[1], shown) : loc[shown[x]] # "trash"
\* ---------------------------------------------------------------- C17
\* The names of an absolute path.
RECURSIVE Split(_)
Split(s) ==
  IF Len(s) <= 1 THEN <<>>
  ELSE LET rest == Tail(s)
           k == IF \E x \in 1..Len(rest) : rest[x] = Sep
                THEN CHOOSE x \in 1..Len(rest) :
                       rest[x] = Sep /\ \A y \in 1..(x - 1) : rest[y] # Sep
                ELSE Len(rest) + 1
       IN <<SubSeq(rest, 1, k - 1)>> \o Split(SubSeq(rest, k, Len(rest)))

\* The path s is the folder base or lies inside it: the names of base
\* lead the names of s.
Under(s, base) ==
  LET ns == Split(abspath(s))
      nb == Split(abspath(base))
  IN Len(nb) <= Len(ns) /\ SubSeq(ns, 1, Len(nb)) = nb

Returned == pc = "exit" /\ mv # None

\* C17: a call of move_to_folder on a file inside the base folder returns
\* False and leaves the file where it is; a call on a file outside it
\* (one of a folder whose name starts with the name of the base folder
\* included) returns True and leaves the file under the base folder, with
\* its name kept, unless shutil.move raises: then it returns False and
\* the file is where it was.
C17_AlreadySorted ==
  Returned =>
    IF Under(mv[1].file_path, mv[1].base_folder)
    THEN mv[1].result = "False" /\ mv[1].at = abspath(mv[1].file_path)
    ELSE IF mv[1].moves
         THEN /\ mv[1].result = "True"
              /\ Under(mv[1].at, mv[1].base_folder)
              /\ basename(mv[1].at) = basename(mv[1].file_path)
         ELSE mv[1].result = "False" /\ mv[1].at = abspath(mv[1].file_path)

\* A call on a file of the folder "/s2" with the base folder "/s" has
\* returned True and the file is under "/s".
C17_Witness ==
  /\ Returned
  /\ Split(abspath(mv[1].file_path))[1] = <<"s", "2">>
  /\ Split(abspath(mv[1].base_folder)) = <<(<<"s">>)>>
  /\ mv[1].result = "True"
  /\ Under(mv[1].at, mv[1].base_folder)
\* ---------------------------------------------------------------- C21
\* The decoded files, in signature order: the order of the scan.
Signed == {f \in Scanned : Decodes(f)}

\* The seed of the group of a decoded file: the first listed member of
\* its visual group, or the file itself when it is in no visual group (it
\* started a group that stayed alone and is not reported).
SeedOf(f) ==
  IF GroupIdsOf("visual_duplicate", f) = {} THEN f
  ELSE FirstOf("visual_duplicate", CHOOSE g \in GroupIdsOf("visual_duplicate", f) : TRUE)

Seeds == {SeedOf(f) : f \in Signed}

\* C21: while a group is built its seed files[i] is the earliest file in
\* signature order that no earlier group took: every file before it is
\* visited and it is in no earlier group.  In the finished report the
\* first member of a visual group is scanned before every other member,
\* no file scanned before it is in its group or in a later one, every
\* member differs from it in at most threshold bits, and the seed of a
\* decoded file is the earliest of the seeds that differ from the file in
\* at most threshold bits.
C21_SeedBasedGroups ==
  /\ pc = "inner" =>
       /\ group[1] = files[i]
       /\ \A x \in 1..(i - 1) : files[x] \in visited
       /\ Occurrences(similar_groups, files[i]) = 0
       /\ \A x \in 2..Len(group) : BitsApart(Sig(group[1]), Sig(group[x])) <= threshold
  /\ Done =>
       /\ \A g \in GroupIds("visual_duplicate") :
            LET seed == FirstOf("visual_duplicate", g)
            IN /\ \A p \in Members("visual_duplicate", g) :
                    /\ p # seed => ScanPos(seed) < ScanPos(p)
                    /\ BitsApart(Sig(seed), Sig(p)) <= threshold
               /\ \A t \in Signed :
                    ScanPos(t) < ScanPos(seed) =>
                      \A h \in GroupIdsOf("visual_duplicate", t) : h[2] < g[2]
       /\ \A f \in Signed :
            \A t \in Seeds : Linked(t, f) => ScanPos(SeedOf(f)) <= ScanPos(t)

\* A finished run over three decoded files: the file scanned last is
\* within the threshold of both files scanned before it, which are
\* further apart than the threshold; it is in the group of the first and
\* the second is in no group.
C21_Witness ==
  /\ Done
  /\ Len(image_files) = 3
  /\ \A p \in Scanned : Decodes(p)
  /\ Linked(image_files[1], image_files[3])
  /\ Linked(image_files[2], image_files[3])
  /\ ~Linked(image_files[1], image_files[2])
  /\ SameGroup("visual_duplicate", image_files[1], image_files[3])
  /\ FirstOf("visual_duplicate", <<"visual_group", 0>>) = image_files[1]
  /\ GroupIdsOf("visual_duplicate", image_files[2]) = {}
====
